---- MODULE Spec2Model ----
(***************************************************************************)
(* Model of primitives/src/transaction.rs: the Slicable codec of           *)
(* Transaction and UncheckedTransaction, the wrapper's hand-written        *)
(* PartialEq and its Debug rendering.                                      *)
(*                                                                         *)
(* A byte is a number in 0..255.  Option<T> is a sequence of length at     *)
(* most one: None is <<>> and Some(x) is <<x>>.  A u64 is kept as its four *)
(* 16-bit limbs, least significant first, so that every 8-byte input       *)
(* decodes within the range of TLC's integers.                             *)
(***************************************************************************)
EXTENDS Integers, Sequences, FiniteSets, TLC

\* ------------------------------------------------------------------ widths
\* [u8; 32], the AccountId of the test's `signed: [1; 32]`
AccountIdLen == 32
\* a u64 (`999u64`) is eight bytes
U64Len == 8
\* H512, the Signature of the test's `H512([0; 64])`
SignatureLen == 64
\* longest run of bytes that follows an encoded value in the input buffer
MaxRestLen == 2

\* ----------------------------------------------------------------- options
None == <<>>
Some(x) == <<x>>
IsSome(o) == Len(o) = 1
Unwrap(o) == o[1]

\* ------------------------------------------------------------------- bytes
Repeat(b, n) == [i \in 1..n |-> b]
Ramp(n) == [i \in 1..n |-> i]
Reverse(s) == [i \in 1..Len(s) |-> s[Len(s) + 1 - i]]
Drop(s, n) == SubSeq(s, n + 1, Len(s))
Take(s, n) == SubSeq(s, 1, n)
\* Vec::extend: append the bytes of a slice
Extend(v, s) == v \o s

\* a u64 below 2^31, as limbs
U64(n) == <<n % 65536, n \div 65536, 0, 0>>

\* ---------------------------------------------------- codecs of the fields
\* What a field's from_slice returns: the value (or None) and the cursor after.
Decoded(x, rest) == [val |-> Some(x), rest |-> rest]
Failed(rest) == [val |-> None, rest |-> rest]

\* AccountId = [u8; 32]: the bytes as they are, fixed width.
AccountId_as_slice(a) == a
AccountId_from_slice(value) ==
    IF Len(value) >= AccountIdLen
    THEN Decoded(Take(value, AccountIdLen), Drop(value, AccountIdLen))
    ELSE Failed(value)

\* u64: eight bytes, little endian.
U64_as_slice(n) ==
    [i \in 1..U64Len |->
        IF i % 2 = 1 THEN n[(i + 1) \div 2] % 256 ELSE n[i \div 2] \div 256]
U64_from_slice(value) ==
    IF Len(value) >= U64Len
    THEN Decoded([k \in 1..(U64Len \div 2) |-> value[2 * k - 1] + 256 * value[2 * k]],
                 Drop(value, U64Len))
    ELSE Failed(value)

\* Signature = H512: the bytes as they are, fixed width.
Signature_as_slice(s) == s
Signature_from_slice(value) ==
    IF Len(value) >= SignatureLen
    THEN Decoded(Take(value, SignatureLen), Drop(value, SignatureLen))
    ELSE Failed(value)

\* Function: a discriminant byte, then the variant's own fields.
TimestampSet(t) == [id |-> "TimestampSet", args |-> <<t>>]
StakingStake == [id |-> "StakingStake", args |-> <<>>]
StakingTransfer(to, amount) == [id |-> "StakingTransfer", args |-> <<to, amount>>]

Function_as_slice(f) ==
    CASE f.id = "TimestampSet" -> <<0>> \o U64_as_slice(f.args[1])
      [] f.id = "StakingStake" -> <<32>>
      [] f.id = "StakingTransfer" ->
            <<34>> \o AccountId_as_slice(f.args[1]) \o U64_as_slice(f.args[2])

Function_from_slice(value) ==
    IF Len(value) = 0 THEN Failed(value)
    ELSE LET id == value[1]
             body == Drop(value, 1)
         IN  CASE id = 0 ->
                    LET t == U64_from_slice(body)
                    IN  IF IsSome(t.val)
                        THEN Decoded(TimestampSet(Unwrap(t.val)), t.rest)
                        ELSE Failed(t.rest)
               [] id = 32 -> Decoded(StakingStake, body)
               [] id = 34 ->
                    LET to == AccountId_from_slice(body)
                    IN  IF ~IsSome(to.val) THEN Failed(to.rest)
                        ELSE LET amount == U64_from_slice(to.rest)
                             IN  IF IsSome(amount.val)
                                 THEN Decoded(StakingTransfer(Unwrap(to.val),
                                                              Unwrap(amount.val)),
                                              amount.rest)
                                 ELSE Failed(amount.rest)
               [] OTHER -> Failed(body)

\* ----------------------------------------------------------------- to_vec
\* Transaction::to_vec with the nonce written before the signer
Transaction_to_vec_swapped(t) ==
    U64_as_slice(t.nonce) \o AccountId_as_slice(t.signed) \o Function_as_slice(t.function)

\* Transaction::to_vec with the record's length written first
Transaction_to_vec_prefixed(t) ==
    LET body == AccountId_as_slice(t.signed) \o U64_as_slice(t.nonce)
                    \o Function_as_slice(t.function)
    IN  <<Len(body)>> \o body

\* Transaction::to_vec
Transaction_to_vec(t) ==
    LET v0 == <<>>
        v1 == Extend(v0, AccountId_as_slice(t.signed))
        v2 == Extend(v1, U64_as_slice(t.nonce))
        v3 == Extend(v2, Function_as_slice(t.function))
    IN  v3

\* UncheckedTransaction::to_vec with the signature written first
UncheckedTransaction_to_vec_sigfirst(u) ==
    Signature_as_slice(u.signature) \o AccountId_as_slice(u.transaction.signed)
        \o U64_as_slice(u.transaction.nonce) \o Function_as_slice(u.transaction.function)

\* UncheckedTransaction::to_vec with the nonce written before the signer
UncheckedTransaction_to_vec_swapped(u) ==
    U64_as_slice(u.transaction.nonce) \o AccountId_as_slice(u.transaction.signed)
        \o Function_as_slice(u.transaction.function) \o Signature_as_slice(u.signature)

\* UncheckedTransaction::to_vec without the signature
UncheckedTransaction_to_vec_nosig(u) ==
    AccountId_as_slice(u.transaction.signed) \o U64_as_slice(u.transaction.nonce)
        \o Function_as_slice(u.transaction.function)

\* UncheckedTransaction::to_vec
UncheckedTransaction_to_vec(u) ==
    LET v0 == <<>>
        v1 == Extend(v0, AccountId_as_slice(u.transaction.signed))
        v2 == Extend(v1, U64_as_slice(u.transaction.nonce))
        v3 == Extend(v2, Function_as_slice(u.transaction.function))
        v4 == Extend(v3, Signature_as_slice(u.signature))
    IN  v4

\* ------------------------------------------------------ equality and Debug
\* Iterator::eq: walk both iterators, stop at the first difference or end.
RECURSIVE IterEq(_, _)
IterEq(a, b) ==
    IF Len(a) = 0 \/ Len(b) = 0 THEN Len(a) = 0 /\ Len(b) = 0
    ELSE IF a[1] # b[1] THEN FALSE
    ELSE IterEq(Tail(a), Tail(b))

\* #[derive(PartialEq)] on Transaction
Transaction_eq(t, o) ==
    t.signed = o.signed /\ t.nonce = o.nonce /\ t.function = o.function

\* an equality that compares the signatures alone
UncheckedTransaction_eq_sigonly(self, o) ==
    IterEq(self.signature, o.signature)

\* impl PartialEq for UncheckedTransaction
UncheckedTransaction_eq(self, o) ==
    IterEq(self.signature, o.signature) /\ Transaction_eq(self.transaction, o.transaction)

\* #[derive(Debug)] on Transaction: the text as its pieces, a field's own
\* rendering standing as the field's value
Transaction_fmt(t) ==
    <<"Transaction { signed: ", t.signed, ", nonce: ", t.nonce,
      ", function: ", t.function, " }">>

\* a rendering that shows the signature too
UncheckedTransaction_fmt_all(self) ==
    <<"UncheckedTransaction { transaction: ">> \o Transaction_fmt(self.transaction)
        \o <<", signature: ", self.signature, " }">>

\* impl fmt::Debug for UncheckedTransaction
UncheckedTransaction_fmt(self) ==
    <<"UncheckedTransaction(">> \o Transaction_fmt(self.transaction) \o <<")">>

\* ------------------------------------------------------------------ values
AccountIds == {Repeat(1, AccountIdLen), Ramp(AccountIdLen)}
Nonces == {U64(999), U64(65536)}
Functions ==
    {TimestampSet(U64(135135)), TimestampSet(U64(999)), StakingStake,
     StakingTransfer(Ramp(AccountIdLen), U64(256))}
Signatures == {Repeat(0, SignatureLen), Ramp(SignatureLen), Reverse(Ramp(SignatureLen))}
Transactions == [signed : AccountIds, nonce : Nonces, function : Functions]
UncheckedTransactions == [transaction : Transactions, signature : Signatures]

\* the wrapper of tests::serialize_unchecked
TestTx ==
    [transaction |-> [signed |-> Repeat(1, AccountIdLen), nonce |-> U64(999),
                      function |-> TimestampSet(U64(135135))],
     signature |-> Repeat(0, SignatureLen)]

RestBytes == {0, 255}
RECURSIVE SeqsUpTo(_, _)
SeqsUpTo(S, n) ==
    IF n = 0 THEN {<<>>}
    ELSE LET shorter == SeqsUpTo(S, n - 1)
         IN  shorter \cup {Append(s, b) : s \in {x \in shorter : Len(x) = n - 1}, b \in S}
Rests == SeqsUpTo(RestBytes, MaxRestLen)
\* values a damaged byte takes: no discriminant, and the discriminant of StakingStake
DamagedBytes == {255, 32}

FieldOrder == <<"signed", "nonce", "function", "signature">>

\* ------------------------------------------------------------------- state
VARIABLES
    w,            \* the wrapper the caller holds
    other,        \* Option: the wrapper it is compared with
    eqRes,        \* what w == other returned
    dbg,          \* the renderings of w and of other
    mode,         \* whose to_vec / from_slice is exercised
    pc,           \* where the caller, or from_slice, stands
    v,            \* the bytes to_vec returned
    kind,         \* how the input was made of v: "whole", "prefix", "damaged"
    rest,         \* the bytes that follow v in the input
    input,        \* the buffer from_slice is given
    value,        \* the cursor: what of input is still unread
    signed,       \* Option: the field bound so far
    nonce,        \* Option
    function,     \* Option
    transaction,  \* what Transaction::from_slice returned
    result,       \* what the exercised from_slice returned
    outcomes      \* the field decodes made, in order, each with its success

vars == <<w, other, eqRes, dbg, mode, pc, v, kind, rest, input, value,
          signed, nonce, function, transaction, result, outcomes>>

cmpVars == <<other, eqRes, dbg>>
encVars == <<mode, v>>
inVars == <<kind, rest, input>>
decVars == <<value, signed, nonce, function, transaction, result, outcomes>>

Init ==
    /\ w \in UncheckedTransactions
    /\ other = None
    /\ eqRes = FALSE
    /\ dbg = <<>>
    /\ mode = "none"
    /\ pc = "start"
    /\ v = <<>>
    /\ kind = "none"
    /\ rest = <<>>
    /\ input = <<>>
    /\ value = <<>>
    /\ signed = None
    /\ nonce = None
    /\ function = None
    /\ transaction = None
    /\ result = None
    /\ outcomes = <<>>

Outcome(field, r) == [field |-> field, ok |-> IsSome(r.val)]

\* ------------------------------------------------- comparing and rendering
\* w == b
Eq(b) ==
    /\ pc = "start"
    /\ other' = Some(b)
    /\ eqRes' = UncheckedTransaction_eq(w, b)
    /\ pc' = "compared"
    /\ UNCHANGED <<w, dbg, encVars, inVars, decVars>>

\* format!("{:?}", w) and format!("{:?}", other)
Fmt ==
    /\ pc = "compared"
    /\ dbg' = <<UncheckedTransaction_fmt(w), UncheckedTransaction_fmt(Unwrap(other))>>
    /\ pc' = "rendered"
    /\ UNCHANGED <<w, other, eqRes, encVars, inVars, decVars>>

\* ---------------------------------------------------------------- encoding
\* Slicable::to_vec(&w.transaction)
ToVecTransaction ==
    /\ pc = "start"
    /\ mode' = "Transaction"
    /\ v' = Transaction_to_vec(w.transaction)
    /\ pc' = "encoded"
    /\ UNCHANGED <<w, cmpVars, inVars, decVars>>

\* Slicable::to_vec(&w)
ToVecUnchecked ==
    /\ pc = "start"
    /\ mode' = "UncheckedTransaction"
    /\ v' = UncheckedTransaction_to_vec(w)
    /\ pc' = "encoded"
    /\ UNCHANGED <<w, cmpVars, inVars, decVars>>

\* ------------------------------------------------- the buffer to be decoded
Begin(k, r, buf) ==
    /\ kind' = k
    /\ rest' = r
    /\ input' = buf
    /\ value' = buf
    /\ pc' = "signed"
    /\ UNCHANGED <<w, cmpVars, encVars, signed, nonce, function, transaction,
                   result, outcomes>>

\* from_slice(&mut &v[..]), v followed by r in the buffer
Whole(r) ==
    /\ pc = "encoded"
    /\ Begin("whole", r, v \o r)

\* from_slice(&mut &v[..n]) for n < v.len()
Truncated(n) ==
    /\ pc = "encoded"
    /\ Begin("prefix", <<>>, Take(v, n))

\* from_slice on v with byte i overwritten
Damaged(i, b) ==
    /\ pc = "encoded"
    /\ v[i] # b
    /\ Begin("damaged", <<>>, [v EXCEPT ![i] = b])

\* ------------------------------------------------ Transaction::from_slice
\* `return None` out of Transaction::from_slice (try_opt! on a failed field)
AbortTransaction ==
    /\ transaction' = None
    /\ pc' = "returned"

\* signed: try_opt!(Slicable::from_slice(value)),
FromSliceSigned ==
    /\ pc = "signed"
    /\ LET r == AccountId_from_slice(value)
       IN  /\ outcomes' = Append(outcomes, Outcome("signed", r))
           /\ value' = r.rest
           /\ IF IsSome(r.val)
              THEN /\ signed' = r.val
                   /\ pc' = "nonce"
                   /\ UNCHANGED transaction
              ELSE /\ AbortTransaction
                   /\ UNCHANGED signed
    /\ UNCHANGED <<w, cmpVars, encVars, inVars, nonce, function, result>>

\* the nonce decoded with unwrap_or_default() in place of try_opt!
FromSliceNonce_default ==
    /\ pc = "nonce"
    /\ LET r == U64_from_slice(value)
       IN  /\ outcomes' = Append(outcomes, Outcome("nonce", r))
           /\ value' = r.rest
           /\ nonce' = IF IsSome(r.val) THEN r.val ELSE Some(U64(0))
           /\ pc' = "function"
    /\ UNCHANGED <<w, cmpVars, encVars, inVars, signed, function, transaction, result>>

\* nonce: try_opt!(Slicable::from_slice(value)),
FromSliceNonce ==
    /\ pc = "nonce"
    /\ LET r == U64_from_slice(value)
       IN  /\ outcomes' = Append(outcomes, Outcome("nonce", r))
           /\ value' = r.rest
           /\ IF IsSome(r.val)
              THEN /\ nonce' = r.val
                   /\ pc' = "function"
                   /\ UNCHANGED transaction
              ELSE /\ AbortTransaction
                   /\ UNCHANGED nonce
    /\ UNCHANGED <<w, cmpVars, encVars, inVars, signed, function, result>>

\* function: try_opt!(Slicable::from_slice(value)), then Some(Transaction { .. })
FromSliceFunction ==
    /\ pc = "function"
    /\ LET r == Function_from_slice(value)
       IN  /\ outcomes' = Append(outcomes, Outcome("function", r))
           /\ value' = r.rest
           /\ IF IsSome(r.val)
              THEN /\ function' = r.val
                   /\ transaction' = Some([signed |-> Unwrap(signed),
                                           nonce |-> Unwrap(nonce),
                                           function |-> Unwrap(r.val)])
                   /\ pc' = "returned"
              ELSE /\ AbortTransaction
                   /\ UNCHANGED function
    /\ UNCHANGED <<w, cmpVars, encVars, inVars, signed, nonce, result>>

\* Transaction::from_slice returns to the caller that decodes a record
ReturnTransaction ==
    /\ pc = "returned"
    /\ mode = "Transaction"
    /\ result' = transaction
    /\ pc' = "done"
    /\ UNCHANGED <<w, cmpVars, encVars, inVars, value, signed, nonce, function,
                   transaction, outcomes>>

\* ----------------------------------------- UncheckedTransaction::from_slice
\* the record decoded from a copy of the cursor, which stays where it was
FromSliceTransaction_copy ==
    /\ pc = "returned"
    /\ mode = "UncheckedTransaction"
    /\ value' = input
    /\ IF IsSome(transaction)
       THEN /\ pc' = "signature"
            /\ UNCHANGED result
       ELSE /\ result' = None
            /\ pc' = "done"
    /\ UNCHANGED <<w, cmpVars, encVars, inVars, signed, nonce, function,
                   transaction, outcomes>>

\* transaction: try_opt!(Transaction::from_slice(value)),
FromSliceTransaction ==
    /\ pc = "returned"
    /\ mode = "UncheckedTransaction"
    /\ IF IsSome(transaction)
       THEN /\ pc' = "signature"
            /\ UNCHANGED result
       ELSE /\ result' = None
            /\ pc' = "done"
    /\ UNCHANGED <<w, cmpVars, encVars, inVars, value, signed, nonce, function,
                   transaction, outcomes>>

\* the signature decoded with unwrap_or_default() in place of try_opt!
FromSliceSignature_default ==
    /\ pc = "signature"
    /\ LET r == Signature_from_slice(value)
       IN  /\ outcomes' = Append(outcomes, Outcome("signature", r))
           /\ value' = r.rest
           /\ result' = Some([transaction |-> Unwrap(transaction),
                              signature |-> IF IsSome(r.val) THEN Unwrap(r.val)
                                            ELSE Repeat(0, SignatureLen)])
    /\ pc' = "done"
    /\ UNCHANGED <<w, cmpVars, encVars, inVars, signed, nonce, function, transaction>>

\* signature: try_opt!(Slicable::from_slice(value)), then Some(UncheckedTransaction { .. })
FromSliceSignature ==
    /\ pc = "signature"
    /\ LET r == Signature_from_slice(value)
       IN  /\ outcomes' = Append(outcomes, Outcome("signature", r))
           /\ value' = r.rest
           /\ result' = IF IsSome(r.val)
                        THEN Some([transaction |-> Unwrap(transaction),
                                   signature |-> Unwrap(r.val)])
                        ELSE None
    /\ pc' = "done"
    /\ UNCHANGED <<w, cmpVars, encVars, inVars, signed, nonce, function, transaction>>

\* ------------------------------------------------------------ specification
Next ==
    \/ \E b \in UncheckedTransactions : Eq(b)
    \/ Fmt
    \/ ToVecTransaction
    \/ ToVecUnchecked
    \/ \E r \in Rests : Whole(r)
    \/ \E n \in 0..(Len(v) - 1) : Truncated(n)
    \/ \E i \in 1..Len(v), b \in DamagedBytes : Damaged(i, b)
    \/ FromSliceSigned
    \/ FromSliceNonce
    \/ FromSliceFunction
    \/ ReturnTransaction
    \/ FromSliceTransaction
    \/ FromSliceSignature

Spec == Init /\ [][Next]_vars

\* ------------------------------------------------------------------ claims
Exact == kind = "whole" /\ rest = <<>>
DoneU == pc = "done" /\ mode = "UncheckedTransaction"
DoneT == pc = "done" /\ mode = "Transaction"

\* C1: UncheckedTransaction::from_slice on exactly to_vec(w) returns Some(w')
\* and w' == w under the wrapper's own PartialEq.
RoundTripUnchecked ==
    (DoneU /\ Exact) =>
        /\ input = UncheckedTransaction_to_vec(w)
        /\ IsSome(result)
        /\ UncheckedTransaction_eq(Unwrap(result), w)
        /\ UncheckedTransaction_eq(w, Unwrap(result))

\* the test's wrapper has been encoded and decoded back
RoundTripUncheckedWitness ==
    DoneU /\ Exact /\ w = TestTx /\ IsSome(result)

\* C2: Transaction::from_slice on exactly to_vec(t) returns Some(t') with
\* signed, nonce and function all equal to t's.
RoundTripTransaction ==
    (DoneT /\ Exact) =>
        /\ input = Transaction_to_vec(w.transaction)
        /\ IsSome(result)
        /\ Unwrap(result).signed = w.transaction.signed
        /\ Unwrap(result).nonce = w.transaction.nonce
        /\ Unwrap(result).function = w.transaction.function

\* a record holding a StakingTransfer has been encoded and decoded back
RoundTripTransactionWitness ==
    DoneT /\ Exact /\ IsSome(result) /\ w.transaction.function.id = "StakingTransfer"

\* C3: to_vec(w) is to_vec(w.transaction) followed by the signature's
\* encoding: its first N bytes are the record's encoding, the rest the
\* signature's.
PrefixConsistency ==
    (mode = "UncheckedTransaction" /\ pc # "start") =>
        LET t == Transaction_to_vec(w.transaction)
            N == Len(t)
        IN  /\ Len(v) >= N
            /\ Take(v, N) = t
            /\ Drop(v, N) = Signature_as_slice(w.signature)
            /\ v = t \o Signature_as_slice(w.signature)

\* a wrapper with a nonzero nonce and a nonzero signature has been encoded
PrefixConsistencyWitness ==
    /\ mode = "UncheckedTransaction"
    /\ pc = "encoded"
    /\ w.transaction.nonce = U64(65536)
    /\ w.signature = Ramp(SignatureLen)

\* C4: decoding a strict prefix of to_vec(t) as a Transaction, or of
\* to_vec(w) as an UncheckedTransaction, returns None; and the decode of a
\* strict prefix always runs to its return.
TruncationSafety ==
    kind = "prefix" =>
        /\ Len(input) < Len(v)
        /\ input = Take(v, Len(input))
        /\ result = None
        /\ pc # "done" => ENABLED Next

\* a wrapper cut inside its signature has been decoded
TruncationSafetyWitness ==
    /\ DoneU
    /\ kind = "prefix"
    /\ Len(input) = Len(v) - 1
    /\ Len(outcomes) = 4

\* C5: a == b iff the signatures are equal byte by byte, in order and in
\* length, and signed, nonce and function are all equal.
FieldwiseEqual(a, b) ==
    /\ Len(a.signature) = Len(b.signature)
    /\ \A i \in 1..Len(a.signature) : a.signature[i] = b.signature[i]
    /\ a.transaction.signed = b.transaction.signed
    /\ a.transaction.nonce = b.transaction.nonce
    /\ a.transaction.function = b.transaction.function

EqualityIsFieldwise ==
    pc = "compared" => (eqRes <=> FieldwiseEqual(w, Unwrap(other)))

\* two wrappers that differ in the nonce alone have been compared
EqualityIsFieldwiseWitness ==
    /\ pc = "compared"
    /\ ~eqRes
    /\ w.signature = Unwrap(other).signature
    /\ w.transaction.signed = Unwrap(other).transaction.signed
    /\ w.transaction.function = Unwrap(other).transaction.function
    /\ w.transaction.nonce # Unwrap(other).transaction.nonce

\* C6: from_slice on to_vec(w) ++ r returns Some(w) and leaves the cursor at
\* exactly r, for the wrapper and for the record.
ConsumesExactlyOne ==
    (pc = "done" /\ kind = "whole") =>
        /\ input = v \o rest
        /\ IsSome(result)
        /\ Unwrap(result) = IF mode = "Transaction" THEN w.transaction ELSE w
        /\ value = rest
        /\ Len(input) - Len(value) = Len(v)

\* a wrapper followed by two more bytes has been decoded
ConsumesExactlyOneWitness ==
    DoneU /\ kind = "whole" /\ Len(rest) = 2 /\ IsSome(result)

\* C7: the fields are decoded in the order signed, nonce, function,
\* signature on one cursor; nothing is decoded after a field fails, None is
\* returned exactly when a field failed, and a returned value holds the
\* four fields as they were decoded from the input.
FailurePropagates ==
    LET n == Len(outcomes)
        r1 == AccountId_from_slice(input)
        r2 == U64_from_slice(r1.rest)
        r3 == Function_from_slice(r2.rest)
        r4 == Signature_from_slice(r3.rest)
    IN  /\ n <= Len(FieldOrder)
        /\ \A i \in 1..n : outcomes[i].field = FieldOrder[i]
        /\ \A i \in 1..(n - 1) : outcomes[i].ok
        /\ (n > 0 /\ ~outcomes[n].ok) => pc \in {"returned", "done"}
        /\ DoneU =>
            /\ IsSome(result) <=> (n = 4 /\ \A i \in 1..n : outcomes[i].ok)
            /\ ~IsSome(result) => (n > 0 /\ ~outcomes[n].ok)
            /\ IsSome(result) =>
                /\ IsSome(r1.val) /\ IsSome(r2.val) /\ IsSome(r3.val) /\ IsSome(r4.val)
                /\ Unwrap(result).transaction.signed = Unwrap(r1.val)
                /\ Unwrap(result).transaction.nonce = Unwrap(r2.val)
                /\ Unwrap(result).transaction.function = Unwrap(r3.val)
                /\ Unwrap(result).signature = Unwrap(r4.val)
                /\ value = r4.rest

\* the wrapper's decode has returned None after the nonce failed
FailurePropagatesWitness ==
    DoneU /\ result = None /\ Len(outcomes) = 2 /\ ~outcomes[2].ok

\* C8: to_vec(t) is the encoding of signed, then of nonce, then of
\* function, nothing added; its length is the sum of the three lengths; and
\* from_slice reads the fields in that order.
RecordLayout ==
    (mode = "Transaction" /\ pc # "start") =>
        LET s == AccountId_as_slice(w.transaction.signed)
            n == U64_as_slice(w.transaction.nonce)
            f == Function_as_slice(w.transaction.function)
        IN  /\ v = s \o n \o f
            /\ Len(v) = Len(s) + Len(n) + Len(f)
            /\ Len(outcomes) <= 3
            /\ \A i \in 1..Len(outcomes) : outcomes[i].field = FieldOrder[i]
            /\ (pc = "done" /\ IsSome(result)) => Len(outcomes) = 3

\* a record has been encoded and its three fields read back
RecordLayoutWitness ==
    DoneT /\ IsSome(result) /\ Len(outcomes) = 3 /\ w.transaction.function = StakingStake

\* C9: wrappers with equal transactions render to the same text whatever
\* their signatures, and the text is the record's rendering inside
\* UncheckedTransaction(...).
RenderingOmitsSignature ==
    pc = "rendered" =>
        /\ Transaction_eq(w.transaction, Unwrap(other).transaction) => dbg[1] = dbg[2]
        /\ dbg[1] = <<"UncheckedTransaction(">> \o Transaction_fmt(w.transaction) \o <<")">>
        /\ dbg[2] = <<"UncheckedTransaction(">>
                        \o Transaction_fmt(Unwrap(other).transaction) \o <<")">>

\* two wrappers that compare unequal have rendered to the same text
RenderingOmitsSignatureWitness ==
    pc = "rendered" /\ ~eqRes /\ dbg[1] = dbg[2] /\ w.signature # Unwrap(other).signature

\* C10: a == b iff to_vec(a) and to_vec(b) are the same bytes.
EqualityIsByteEquality ==
    pc = "compared" =>
        (eqRes <=> UncheckedTransaction_to_vec(w) = UncheckedTransaction_to_vec(Unwrap(other)))

\* two wrappers that differ in the signature alone have been compared
EqualityIsByteEqualityWitness ==
    /\ pc = "compared"
    /\ ~eqRes
    /\ w.transaction = Unwrap(other).transaction
    /\ w.signature # Unwrap(other).signature

====
